---- MODULE Spec2Model ----
(***************************************************************************)
(* via-httplib: the HTTP header parser of include/via/http/headers.hpp.    *)
(*                                                                         *)
(* field_line parses one header field line, message_headers drives it over *)
(* a header block and keeps the name -> value collection.  Bytes are ASCII *)
(* codes, strings are sequences of bytes, an iterator is the number of     *)
(* bytes of the buffer that lie before it (0 = begin, Len(buffer) = end).  *)
(***************************************************************************)
EXTENDS Integers, Sequences, FiniteSets

----------------------------------------------------------------------------
(* Bytes *)

HT    == 9
LF    == 10
CR    == 13
SP    == 32
COMMA == 44
COLON == 58
SEMI  == 59
HYPHEN == 45

\* "cookie"
COOKIE == <<99, 111, 111, 107, 105, 101>>

\* "identity"
IDENTITY == <<105, 100, 101, 110, 116, 105, 116, 121>>

\* "close"
CLOSE == <<99, 108, 111, 115, 101>>

\* "100-continue"
CONTINUE == <<49, 48, 48, 45, 99, 111, 110, 116, 105, 110, 117, 101>>

\* header_field::lowercase_name of LC_EXPECT: "expect"
LC_EXPECT == <<101, 120, 112, 101, 99, 116>>

\* header_field::lowercase_name of LC_CONTENT_LENGTH, LC_TRANSFER_ENCODING
\* and LC_CONNECTION: "content-length", "transfer-encoding", "connection"
LC_CONTENT_LENGTH ==
  <<99, 111, 110, 116, 101, 110, 116, 45, 108, 101, 110, 103, 116, 104>>

LC_TRANSFER_ENCODING ==
  <<116, 114, 97, 110, 115, 102, 101, 114, 45, 101, 110, 99, 111, 100, 105,
    110, 103>>

LC_CONNECTION == <<99, 111, 110, 110, 101, 99, 116, 105, 111, 110>>

\* the digits of the largest std::ptrdiff_t, 2^63 - 1
PTRDIFF_MAX ==
  <<57, 50, 50, 51, 51, 55, 50, 48, 51, 54, 56, 53, 52, 55, 55, 53, 56, 48,
    55>>

is_end_of_line(c) == (c = CR) \/ (c = LF)

is_space_or_tab(c) == (c = SP) \/ (c = HT)

\* std::isalpha / std::tolower in the "C" locale.  The bytes of the model are
\* 7 bit characters: for a char below 0 the calls are undefined.
isalpha(c) == (c >= 65 /\ c <= 90) \/ (c >= 97 /\ c <= 122)

tolower(c) == IF c >= 65 /\ c <= 90 THEN c + 32 ELSE c

----------------------------------------------------------------------------
(* Bounds of the model and the parser parameters that are explored *)

MaxWhitespace   == 1   \* max_whitespace of the byte level specifications
MaxLineLength   == 4   \* max_line_length of the byte level specifications
MaxHeaderNumber == 1   \* max_header_number of the byte level specifications
MaxHeaderLength == 3   \* max_header_length of the byte level specifications
MaxBuffer       == 2   \* every buffer of at most this many bytes is handed in
MaxInput        == 7   \* bytes handed to the parser between two clear()
MaxCutInput     == 5   \* longest input of the specification of the cuts
FieldLineLength == 6   \* max_line_length of the field_line on its own
FieldInput      == 8   \* bytes handed to the field_line on its own
LinesLineLength   == 16  \* max_line_length where whole lines are received
LinesHeaderLength == 20  \* max_header_length where whole lines are received
MaxReceived     == 3   \* header fields received line by line or by add()
RepeatLineLength == 4  \* max_line_length where one line is repeated
RepeatHeaderLength == 1 \* max_header_length where one line is repeated
MaxRepeat       == 17  \* times the line is repeated
AccessLineLength   == 40   \* max_line_length where the accessors are read
AccessHeaderLength == 120  \* max_header_length where the accessors are read
AccessHeaderNumber == 3    \* max_header_number where the accessors are read
MaxAccess       == 2   \* field lines received before the accessors are read
MaxLength       == 12  \* largest content length that is compared
MaxSplit        == 4   \* longest string are_headers_split is applied to
MaxSplitLines   == 2   \* header lines are_headers_split is applied to
MaxRequestLines == 3   \* header lines of a request that expects 100 Continue

\* 'B' stands for the letters, the other bytes are the ones the parser
\* tells apart
Alphabet == {66, COLON, SP, CR, LF}

SeqsUpTo(S, n) == UNION {[1..k -> S] : k \in 1..n}

\* a byte, the end of a line and what follows it, in one buffer
LineEnds ==
  {(<<x>> \o eol) \o post :
     x \in {c \in Alphabet : ~is_end_of_line(c)},
     eol \in {<<CR, LF>>, <<LF>>},
     post \in {<<>>, <<SP>>, <<LF>>, <<CR, LF>>}}

Buffers == SeqsUpTo(Alphabet, MaxBuffer) \cup LineEnds

ParamsOf(line_length, header_length) ==
  [strict_crlf_        : BOOLEAN,
   max_whitespace_     : {MaxWhitespace},
   max_line_length_    : {line_length},
   max_header_number_  : {MaxHeaderNumber},
   max_header_length_  : {header_length}]

Params == ParamsOf(MaxLineLength, MaxHeaderLength)

ParamsField == ParamsOf(FieldLineLength, MaxHeaderLength)

ParamsLines == ParamsOf(LinesLineLength, LinesHeaderLength)

ParamsRepeat == ParamsOf(RepeatLineLength, RepeatHeaderLength)

\* the inputs that are cut into parts
Inputs == SeqsUpTo(Alphabet, MaxCutInput)

\* header field lines received whole: "", "a", "A", "cookie", "Cookie" with
\* "", "a=1", "b=2"
LineNames == {<<>>, <<97>>, <<65>>, COOKIE, <<67, 111, 111, 107, 105, 101>>}

LineValues == {<<>>, <<97, 61, 49>>, <<98, 61, 50>>}

Lines == [name : LineNames, value : LineValues]

LineBytes(l) == ((l.name \o <<COLON, SP>>) \o l.value) \o <<CR, LF>>

Lower(s) == [k \in 1..Len(s) |-> tolower(s[k])]

ParamsAccess ==
  [strict_crlf_        : BOOLEAN,
   max_whitespace_     : {MaxWhitespace},
   max_line_length_    : {AccessLineLength},
   max_header_number_  : {AccessHeaderNumber},
   max_header_length_  : {AccessHeaderLength}]

\* the field lines the accessors are read on: "Transfer-Encoding",
\* "Content-Length" and "Connection" with "", "chunked", "Identity",
\* "keep-alive", "Close", "12", "1a" and "9223372036854775808" (2^63)
AccessNames ==
  {<<84, 114, 97, 110, 115, 102, 101, 114, 45, 69, 110, 99, 111, 100, 105,
     110, 103>>,
   <<67, 111, 110, 116, 101, 110, 116, 45, 76, 101, 110, 103, 116, 104>>,
   <<67, 111, 110, 110, 101, 99, 116, 105, 111, 110>>}

AccessValues ==
  {<<>>,
   <<99, 104, 117, 110, 107, 101, 100>>,
   <<73, 100, 101, 110, 116, 105, 116, 121>>,
   <<107, 101, 101, 112, 45, 97, 108, 105, 118, 101>>,
   <<67, 108, 111, 115, 101>>,
   <<49, 50>>,
   <<49, 97>>,
   <<57, 50, 50, 51, 51, 55, 50, 48, 51, 54, 56, 53, 52, 55, 55, 53, 56,
     48, 56>>}

AccessLines == [name : AccessNames, value : AccessValues]

\* the header lines of the requests: "Expect" with "100-continue",
\* "100-Continue" and "", "Content-Length" with "0", "2" and "1a"
RequestLines ==
  [name : {<<69, 120, 112, 101, 99, 116>>},
   value : {CONTINUE,
            <<49, 48, 48, 45, 67, 111, 110, 116, 105, 110, 117, 101>>,
            <<>>}]
  \cup
  [name : {<<67, 111, 110, 116, 101, 110, 116, 45,
             76, 101, 110, 103, 116, 104>>},
   value : {<<48>>, <<50>>, <<49, 97>>}]

----------------------------------------------------------------------------
(* State *)

VARIABLES
  params,   \* the construction parameters of the parser
  field_,   \* the field_line: name_, value_, length_, ws_count_, state_
  fields_,  \* message_headers::fields_, a function from names to values
  valid_,   \* message_headers::valid_
  length_,  \* message_headers::length_
  buffer,   \* the bytes the caller holds for the latest parse call
  begin,    \* iter at the start of the latest parse call
  end,      \* end of the latest parse call
  iter,     \* iter when the latest parse call returned
  result,   \* the latest operation, what it returned and why
  received, \* history: the fields received whole or by add() since clear()
  lines,    \* history: field lines added by parse since the last clear()
  consumed, \* history: bytes consumed by parse since the last clear()
  failed,   \* history: a parse since clear() returned false on an error
  receiver  \* the request receiver that owns the headers: rx (its Rx state),
            \* continue_sent_, handler (the application has an expect continue
            \* handler), body (body bytes read), sent (status of the responses
            \* sent), reported (history: RX_EXPECT_CONTINUE was reported)

vars == <<params, field_, fields_, valid_, length_, buffer, begin, end, iter,
          result, received, lines, consumed, failed, receiver>>

HEADER_NAME         == "HEADER_NAME"
HEADER_VALUE_LS     == "HEADER_VALUE_LS"
HEADER_VALUE        == "HEADER_VALUE"
HEADER_LF           == "HEADER_LF"
HEADER_VALID        == "HEADER_VALID"
HEADER_ERROR_LENGTH == "HEADER_ERROR_LENGTH"
HEADER_ERROR_CRLF   == "HEADER_ERROR_CRLF"
HEADER_ERROR_WS     == "HEADER_ERROR_WS"

\* why a parse call returned: it returned true or ran out of input (NoError),
\* parse_char rejected a byte, the header block is too large, or the CR of
\* the blank line is not followed by LF
NoError    == "none"
ByteError  == "byte"
SizeError  == "size"
BlankError == "blank"

\* response_status::code of the responses to a request that expects
\* 100 Continue
code_CONTINUE           == "CONTINUE"
code_EXPECTATION_FAILED == "EXPECTATION_FAILED"

\* enum Rx, the receiver parsing state
RX_INVALID         == "RX_INVALID"
RX_EXPECT_CONTINUE == "RX_EXPECT_CONTINUE"
RX_INCOMPLETE      == "RX_INCOMPLETE"
RX_VALID           == "RX_VALID"
RX_CHUNK           == "RX_CHUNK"

\* a new request receiver, of an application with or without an expect
\* continue handler
receiver_new(handler) ==
  [rx |-> RX_INCOMPLETE, continue_sent_ |-> FALSE, handler |-> handler,
   body |-> 0, sent |-> <<>>, reported |-> FALSE]

----------------------------------------------------------------------------
(* field_line *)

\* field_line::field_line and field_line::clear
field_line_clear ==
  [name_ |-> <<>>, value_ |-> <<>>, length_ |-> 0, ws_count_ |-> 0,
   state_ |-> HEADER_NAME]

\* parse_char_value without the test of strict_crlf_
parse_char_value_lenient(p, f, c) ==
  IF ~is_end_of_line(c)
  THEN [f |-> [f EXCEPT !.value_ = Append(@, c)], ok |-> TRUE]
  ELSE IF c = CR
  THEN [f |-> [f EXCEPT !.state_ = HEADER_LF], ok |-> TRUE]
  ELSE [f |-> [f EXCEPT !.state_ = HEADER_VALID], ok |-> TRUE]

\* parse_char_value with CR taken for a byte of the value
parse_char_value_keep_cr(p, f, c) ==
  IF c # LF
  THEN [f |-> [f EXCEPT !.value_ = Append(@, c)], ok |-> TRUE]
  ELSE IF p.strict_crlf_
  THEN [f |-> [f EXCEPT !.state_ = HEADER_ERROR_CRLF], ok |-> FALSE]
  ELSE [f |-> [f EXCEPT !.state_ = HEADER_VALID], ok |-> TRUE]

\* case HEADER_VALUE of parse_char (also reached by fall-through)
parse_char_value(p, f, c) ==
  IF ~is_end_of_line(c)
  THEN [f |-> [f EXCEPT !.value_ = Append(@, c)], ok |-> TRUE]
  ELSE IF c = CR
  THEN [f |-> [f EXCEPT !.state_ = HEADER_LF], ok |-> TRUE]
  ELSE IF p.strict_crlf_
  THEN [f |-> [f EXCEPT !.state_ = HEADER_ERROR_CRLF], ok |-> FALSE]
  ELSE [f |-> [f EXCEPT !.state_ = HEADER_VALID], ok |-> TRUE]

\* the test of the length with >= for >
length_exceeded_early(p, len) == len >= p.max_line_length_

\* ++length_ > max_line_length_ at the head of parse_char
length_exceeded(p, len) == len > p.max_line_length_

\* parse_char with the error states handled as HEADER_VALUE
parse_char_no_default(p, f0, c) ==
  LET len == f0.length_ + 1
      f   == [f0 EXCEPT !.length_ = len,
                        !.state_ = IF length_exceeded(p, len)
                                   THEN HEADER_ERROR_LENGTH ELSE @]
  IN CASE f.state_ = HEADER_NAME ->
            IF isalpha(c) \/ c = HYPHEN
            THEN [f |-> [f EXCEPT !.name_ = Append(@, tolower(c))], ok |-> TRUE]
            ELSE IF c = COLON
            THEN [f |-> [f EXCEPT !.state_ = HEADER_VALUE_LS], ok |-> TRUE]
            ELSE [f |-> f, ok |-> FALSE]
       [] f.state_ = HEADER_VALUE_LS ->
            IF is_space_or_tab(c)
            THEN IF f.ws_count_ + 1 > p.max_whitespace_
                 THEN [f |-> [f EXCEPT !.ws_count_ = @ + 1,
                                       !.state_ = HEADER_ERROR_WS],
                       ok |-> FALSE]
                 ELSE [f |-> [f EXCEPT !.ws_count_ = @ + 1], ok |-> TRUE]
            ELSE parse_char_value(p, [f EXCEPT !.state_ = HEADER_VALUE], c)
       [] f.state_ = HEADER_VALUE -> parse_char_value(p, f, c)
       [] f.state_ = HEADER_LF ->
            IF c = LF
            THEN [f |-> [f EXCEPT !.state_ = HEADER_VALID], ok |-> TRUE]
            ELSE [f |-> f, ok |-> FALSE]
       [] OTHER -> parse_char_value(p, [f EXCEPT !.state_ = HEADER_VALUE], c)

\* field_line::parse_char: the field after the byte c, and the return value
parse_char(p, f0, c) ==
  LET len == f0.length_ + 1
      f   == [f0 EXCEPT !.length_ = len,
                        !.state_ = IF length_exceeded(p, len)
                                   THEN HEADER_ERROR_LENGTH ELSE @]
  IN CASE f.state_ = HEADER_NAME ->
            IF isalpha(c) \/ c = HYPHEN
            THEN [f |-> [f EXCEPT !.name_ = Append(@, tolower(c))], ok |-> TRUE]
            ELSE IF c = COLON
            THEN [f |-> [f EXCEPT !.state_ = HEADER_VALUE_LS], ok |-> TRUE]
            ELSE [f |-> f, ok |-> FALSE]
       [] f.state_ = HEADER_VALUE_LS ->
            IF is_space_or_tab(c)
            THEN IF f.ws_count_ + 1 > p.max_whitespace_
                 THEN [f |-> [f EXCEPT !.ws_count_ = @ + 1,
                                       !.state_ = HEADER_ERROR_WS],
                       ok |-> FALSE]
                 ELSE [f |-> [f EXCEPT !.ws_count_ = @ + 1], ok |-> TRUE]
            ELSE parse_char_value(p, [f EXCEPT !.state_ = HEADER_VALUE], c)
       [] f.state_ = HEADER_VALUE -> parse_char_value(p, f, c)
       [] f.state_ = HEADER_LF ->
            IF c = LF
            THEN [f |-> [f EXCEPT !.state_ = HEADER_VALID], ok |-> TRUE]
            ELSE [f |-> f, ok |-> FALSE]
       [] OTHER -> [f |-> f, ok |-> FALSE]

\* field_line::parse with a loop that goes on after HEADER_VALID
RECURSIVE field_line_parse(_, _, _, _, _, _)
field_line_parse_no_stop(p, f, pre, buf, i, e) ==
  IF i # e
  THEN LET r == parse_char(p, f, buf[i + 1])
       IN IF ~r.ok
          THEN [f |-> r.f, pre |-> f, iter |-> i + 1, ret |-> FALSE,
                error |-> ByteError]
          ELSE field_line_parse(p, r.f, f, buf, i + 1, e)
  ELSE [f |-> f, pre |-> pre, iter |-> i, ret |-> (f.state_ = HEADER_VALID),
        error |-> NoError]

\* field_line::parse(iter, end) on the bytes of buf, from iter i to end e:
\* the field, the iterator and the return value when it returns.  pre is
\* the field before the last byte it consumed, error tells a return on a
\* rejected byte from a return at the end of the input.
field_line_parse(p, f, pre, buf, i, e) ==
  IF i # e /\ f.state_ # HEADER_VALID
  THEN LET r == parse_char(p, f, buf[i + 1])
       IN IF ~r.ok
          THEN [f |-> r.f, pre |-> f, iter |-> i + 1, ret |-> FALSE,
                error |-> ByteError]
          ELSE IF r.f.state_ = HEADER_VALID /\ (i + 1 # e)
                  /\ is_space_or_tab(buf[i + 2])
          THEN field_line_parse(p, [r.f EXCEPT !.value_ = Append(@, SP),
                                               !.state_ = HEADER_VALUE_LS],
                                f, buf, i + 1, e)
          ELSE field_line_parse(p, r.f, f, buf, i + 1, e)
  ELSE [f |-> f, pre |-> pre, iter |-> i, ret |-> (f.state_ = HEADER_VALID),
        error |-> NoError]

\* field_line::length
field_line_length(f) == Len(f.name_) + Len(f.value_)

----------------------------------------------------------------------------
(* message_headers *)

\* std::string::find(w) != npos
contains(s, w) ==
  \E k \in 0..(Len(s) - Len(w)) : SubSeq(s, k + 1, k + Len(w)) = w

\* the separator of add without the test for "cookie"
separator_comma(name) == COMMA

\* the separator of add
separator(name) == IF contains(name, COOKIE) THEN SEMI ELSE COMMA

\* message_headers::add
add(fs, name, value) ==
  IF name \in DOMAIN fs
  THEN [fs EXCEPT ![name] = (@ \o <<separator(name)>>) \o value]
  ELSE [n \in (DOMAIN fs) \cup {name} |-> IF n = name THEN value ELSE fs[n]]

\* the test of the limits after a field line of message_headers::parse
too_large(p, len, fs) ==
  (len > p.max_header_length_) \/ (Cardinality(DOMAIN fs) > p.max_header_number_)

\* the blank line at the end of message_headers::parse, m as the loop left it
parse_blank_line(m, buf, i, e) ==
  IF i = e \/ ~is_end_of_line(buf[i + 1])
  THEN [m EXCEPT !.iter = i, !.ret = FALSE,
                 !.error = IF i = e THEN NoError ELSE BlankError]
  ELSE LET j == IF buf[i + 1] = CR THEN i + 1 ELSE i
       IN IF j = e \/ buf[j + 1] # LF
          THEN [m EXCEPT !.iter = j, !.ret = FALSE,
                         !.error = IF j = e THEN NoError ELSE BlankError]
          ELSE [m EXCEPT !.iter = j + 1, !.valid_ = TRUE, !.ret = TRUE,
                         !.error = NoError]

\* message_headers::parse(iter, end) on the bytes of buf, from iter i to
\* end e.  m holds the members and the history of the call.
RECURSIVE message_headers_parse(_, _, _, _, _)
message_headers_parse(p, m, buf, i, e) ==
  IF i # e /\ ~is_end_of_line(buf[i + 1])
  THEN LET r == field_line_parse(p, m.field_, m.field_, buf, i, e)
       IN IF ~r.ret
          THEN [m EXCEPT !.field_ = r.f, !.iter = r.iter, !.ret = FALSE,
                         !.error = r.error]
          ELSE LET m1 == [m EXCEPT
                            !.length_ = @ + field_line_length(r.f),
                            !.fields_ = add(@, r.f.name_, r.f.value_),
                            !.field_  = field_line_clear,
                            !.lines   = @ + 1]
               IN IF too_large(p, m1.length_, m1.fields_)
                  THEN [m1 EXCEPT !.iter = r.iter, !.ret = FALSE,
                                  !.error = SizeError]
                  ELSE message_headers_parse(p, m1, buf, r.iter, e)
  ELSE parse_blank_line(m, buf, i, e)

\* message_headers::find: the value stored for name, blank if there is none
find(fs, name) == IF name \in DOMAIN fs THEN fs[name] ELSE <<>>

is_digit(c) == c >= 48 /\ c <= 57

\* the digits of s after its leading zeros
RECURSIVE strip_zeros(_)
strip_zeros(s) == IF s # <<>> /\ s[1] = 48 THEN strip_zeros(Tail(s)) ELSE s

\* s > t for two strings of digits of the same length
RECURSIVE digits_greater(_, _)
digits_greater(s, t) ==
  /\ s # <<>>
  /\ \/ s[1] > t[1]
     \/ s[1] = t[1] /\ digits_greater(Tail(s), Tail(t))

\* the number that the digits of s write does not fit a std::ptrdiff_t
overflows(s) ==
  LET d == strip_zeros(s)
  IN \/ Len(d) > Len(PTRDIFF_MAX)
     \/ Len(d) = Len(PTRDIFF_MAX) /\ digits_greater(d, PTRDIFF_MAX)

\* the number that the digits of s write
RECURSIVE dec_value(_)
dec_value(s) ==
  IF s = <<>> THEN 0
  ELSE 10 * dec_value(SubSeq(s, 1, Len(s) - 1)) + (s[Len(s)] - 48)

\* from_dec_string: the decimal value of s, -1 when s is not a string of
\* digits or its value overflows
from_dec_string(s) ==
  IF s = <<>> \/ (\E k \in 1..Len(s) : ~is_digit(s[k])) \/ overflows(s)
  THEN -1
  ELSE dec_value(s)

\* content_length without the test for a blank value
content_length_unchecked(fs) == from_dec_string(find(fs, LC_CONTENT_LENGTH))

\* message_headers::content_length
content_length(fs) ==
  LET v == find(fs, LC_CONTENT_LENGTH)
  IN IF v = <<>> THEN 0 ELSE from_dec_string(v)

\* message_headers::is_chunked
is_chunked(fs) ==
  LET xfer_encoding == find(fs, LC_TRANSFER_ENCODING)
  IN IF xfer_encoding = <<>>
     THEN FALSE
     ELSE ~contains(Lower(xfer_encoding), IDENTITY)

\* expect_continue without the conversion to lower case
expect_continue_exact(fs) ==
  LET expect == find(fs, LC_EXPECT)
  IN IF expect = <<>> THEN FALSE ELSE contains(expect, CONTINUE)

\* message_headers::expect_continue
expect_continue(fs) ==
  LET expect == find(fs, LC_EXPECT)
  IN IF expect = <<>> THEN FALSE ELSE contains(Lower(expect), CONTINUE)

close_connection_exact(fs) ==
  LET connection == find(fs, LC_CONNECTION)
  IN IF connection = <<>> THEN FALSE ELSE contains(connection, CLOSE)

\* message_headers::close_connection
close_connection(fs) ==
  LET connection == find(fs, LC_CONNECTION)
  IN IF connection = <<>> THEN FALSE ELSE contains(Lower(connection), CLOSE)

\* header_field::to_header: the line name ": " value CRLF
to_header(name, value) == ((name \o <<COLON, SP>>) \o value) \o <<CR, LF>>

\* the test of are_headers_split for LF LF only
split_at_lf(c, prev, pprev) == c = LF /\ prev = LF

\* the test of are_headers_split at the byte c, after prev and pprev
split_at(c, prev, pprev) ==
  c = LF /\ (prev = LF \/ (prev = CR /\ pprev = LF))

\* the loop of are_headers_split from the byte i of s
RECURSIVE split_from(_, _, _, _)
split_from(s, i, prev, pprev) ==
  IF i > Len(s) THEN FALSE
  ELSE IF split_at(s[i], prev, pprev) THEN TRUE
  ELSE split_from(s, i + 1, s[i], prev)

\* are_headers_split: prev and pprev start as '0'
are_headers_split(s) == split_from(s, 1, 48, 48)

\* the orders in which the unordered_map fs may be iterated
orders(fs) ==
  LET N == 1..Cardinality(DOMAIN fs)
  IN {o \in [N -> DOMAIN fs] : \A i, j \in N : o[i] = o[j] => i = j}

\* message_headers::to_string when the map is iterated in the order o, from
\* its entry k on
RECURSIVE to_string_from(_, _, _)
to_string_from(fs, o, k) ==
  IF k > Len(o) THEN <<>>
  ELSE to_header(o[k], fs[o[k]]) \o to_string_from(fs, o, k + 1)

\* message_headers::to_string: the strings it may return
to_string(fs) == {to_string_from(fs, o, 1) : o \in orders(fs)}

\* the bytes held by the collection fs: its names and values
RECURSIVE SumOver(_, _)
SumOver(fs, D) ==
  IF D = {} THEN 0
  ELSE LET n == CHOOSE x \in D : TRUE
       IN Len(n) + Len(fs[n]) + SumOver(fs, D \ {n})

StoredBytes == SumOver(fields_, DOMAIN fields_)

----------------------------------------------------------------------------
(* The operations *)

Fresh(ps, bufs) ==
  /\ params \in ps
  /\ field_ = field_line_clear
  /\ fields_ = <<>>
  /\ valid_ = FALSE
  /\ length_ = 0
  /\ buffer \in bufs
  /\ begin = 0
  /\ end = 0
  /\ iter = 0
  /\ result = [op |-> "construct", ret |-> FALSE, error |-> NoError,
               pre |-> field_line_clear]
  /\ received = <<>>
  /\ lines = 0
  /\ consumed = 0
  /\ failed = FALSE
  /\ receiver = receiver_new(FALSE)

\* message_headers::parse(iter, end) with iter at b and end at e of buf
ParseCall(buf, b, e) ==
  LET m == [field_ |-> field_, fields_ |-> fields_, valid_ |-> valid_,
            length_ |-> length_, lines |-> lines, iter |-> b,
            ret |-> FALSE, error |-> NoError]
  IN \E r \in {message_headers_parse(params, m, buf, b, e)} :
     /\ field_' = r.field_
     /\ fields_' = r.fields_
     /\ valid_' = r.valid_
     /\ length_' = r.length_
     /\ lines' = r.lines
     /\ buffer' = buf
     /\ begin' = b
     /\ end' = e
     /\ iter' = r.iter
     /\ result' = [op |-> "parse", ret |-> r.ret, error |-> r.error,
                   pre |-> field_line_clear]
     /\ consumed' = consumed + (r.iter - b)
     /\ failed' = (failed \/ r.error # NoError)
     /\ UNCHANGED params

\* message_headers::parse on a buffer the transport delivered
Parse(buf) ==
  /\ consumed + Len(buf) <= MaxInput
  /\ ParseCall(buf, 0, Len(buf))
  /\ UNCHANGED <<received, receiver>>

\* message_headers::clear without field_.clear()
ClearKeepField ==
  /\ result.op # "construct"
  /\ fields_' = <<>>
  /\ valid_' = FALSE
  /\ length_' = 0
  /\ buffer' = <<>>
  /\ begin' = 0
  /\ end' = 0
  /\ iter' = 0
  /\ result' = [op |-> "clear", ret |-> FALSE, error |-> NoError,
                pre |-> field_]
  /\ received' = <<>>
  /\ lines' = 0
  /\ consumed' = 0
  /\ failed' = FALSE
  /\ UNCHANGED <<params, field_, receiver>>

\* message_headers::clear; the result keeps the field line that it cleared
Clear ==
  /\ result.op # "construct"
  /\ field_' = field_line_clear
  /\ fields_' = <<>>
  /\ valid_' = FALSE
  /\ length_' = 0
  /\ buffer' = <<>>
  /\ begin' = 0
  /\ end' = 0
  /\ iter' = 0
  /\ result' = [op |-> "clear", ret |-> FALSE, error |-> NoError,
                pre |-> field_]
  /\ received' = <<>>
  /\ lines' = 0
  /\ consumed' = 0
  /\ failed' = FALSE
  /\ UNCHANGED <<params, receiver>>

Init == Fresh(Params, {<<>>})

Next ==
  \/ \E buf \in Buffers : Parse(buf)
  \/ Clear

Spec == Init /\ [][Next]_vars

----------------------------------------------------------------------------
(* The field_line on its own, fed buffer by buffer *)

\* field_line::parse on a buffer
FieldParse(buf) ==
  /\ consumed + Len(buf) <= FieldInput
  /\ \E r \in {field_line_parse(params, field_, field_, buf, 0, Len(buf))} :
        /\ field_' = r.f
        /\ buffer' = buf
        /\ begin' = 0
        /\ end' = Len(buf)
        /\ iter' = r.iter
        /\ result' = [op |-> "field_parse", ret |-> r.ret, error |-> r.error,
                      pre |-> r.pre]
        /\ consumed' = consumed + r.iter
        /\ failed' = (failed \/ r.error # NoError)
  /\ UNCHANGED <<params, fields_, valid_, length_, received, lines,
                 receiver>>

\* field_line::clear
FieldClear == Clear

InitField == Fresh(ParamsField, {<<>>})

NextField ==
  \/ \E buf \in Buffers : FieldParse(buf)
  \/ FieldClear

SpecField == InitField /\ [][NextField]_vars

----------------------------------------------------------------------------
(* Header fields received line by line and added by add() *)

\* message_headers::parse on a buffer that holds the field line l
ParseLine(l) ==
  /\ Len(received) < MaxReceived
  /\ ParseCall(LineBytes(l), 0, Len(LineBytes(l)))
  /\ received' = Append(received, l)
  /\ UNCHANGED receiver

\* message_headers::add, the name in lower case as its documentation asks
\* and ended by a NUL as find(name.data()) needs
Add(name, value) ==
  /\ Len(received) < MaxReceived
  /\ fields_' = add(fields_, name, value)
  /\ result' = [op |-> "add", ret |-> FALSE, error |-> NoError,
                pre |-> field_line_clear]
  /\ received' = Append(received, [name |-> name, value |-> value])
  /\ UNCHANGED <<params, field_, valid_, length_, buffer, begin, end, iter,
                 lines, consumed, failed, receiver>>

InitLines == Fresh(ParamsLines, {<<>>})

NextLines ==
  \/ \E l \in Lines : ParseLine(l)
  \/ \E n \in {Lower(x) : x \in LineNames}, v \in LineValues : Add(n, v)
  \/ Clear

SpecLines == InitLines /\ [][NextLines]_vars

----------------------------------------------------------------------------
(* The fields that the accessors of message_headers read *)

\* message_headers::parse on a buffer that holds the field line l
AccessLine(l) ==
  /\ Len(received) < MaxAccess
  /\ ParseCall(LineBytes(l), 0, Len(LineBytes(l)))
  /\ received' = Append(received, l)
  /\ UNCHANGED receiver

InitAccess == Fresh(ParamsAccess, {<<>>})

NextAccess ==
  \/ \E l \in AccessLines : AccessLine(l)
  \/ Clear

SpecAccess == InitAccess /\ [][NextAccess]_vars

----------------------------------------------------------------------------
(* are_headers_split on strings and on encoded header lines *)

\* the lines of ls as name ": " value CRLF, one after the other
RECURSIVE Encoded(_)
Encoded(ls) ==
  IF ls = <<>> THEN <<>> ELSE LineBytes(Head(ls)) \o Encoded(Tail(ls))

\* are_headers_split(buffer)
SplitCall ==
  /\ result.op = "construct"
  /\ result' = [op |-> "are_headers_split", ret |-> are_headers_split(buffer),
                error |-> NoError, pre |-> field_line_clear]
  /\ UNCHANGED <<params, field_, fields_, valid_, length_, buffer, begin, end,
                 iter, received, lines, consumed, failed, receiver>>

\* are_headers_split on a string of bytes
Split == received = <<>> /\ SplitCall

\* are_headers_split on the header lines of received, one after the other
SplitLines == received # <<>> /\ SplitCall

\* the string is any string of bytes, or header lines one after the other
InitSplit ==
  /\ params \in Params
  /\ field_ = field_line_clear
  /\ fields_ = <<>>
  /\ valid_ = FALSE
  /\ length_ = 0
  /\ received \in SeqsUpTo(Lines, MaxSplitLines) \cup {<<>>}
  /\ IF received = <<>>
     THEN buffer \in SeqsUpTo(Alphabet, MaxSplit) \cup {<<>>}
     ELSE buffer = Encoded(received)
  /\ begin = 0
  /\ end = 0
  /\ iter = 0
  /\ result = [op |-> "construct", ret |-> FALSE, error |-> NoError,
               pre |-> field_line_clear]
  /\ lines = 0
  /\ consumed = 0
  /\ failed = FALSE
  /\ receiver = receiver_new(FALSE)

NextSplit == Split \/ SplitLines

SpecSplit == InitSplit /\ [][NextSplit]_vars

----------------------------------------------------------------------------
(* A request receiver and the 100 Continue gate *)

\* the receiver after a parse call on the headers of its request: the gate
\* and the framing when the headers are complete, RX_INVALID on an error
receive_headers(rcv, fs, ret, error) ==
  IF error # NoError THEN [rcv EXCEPT !.rx = RX_INVALID]
  ELSE IF ~ret THEN rcv
  ELSE IF content_length(fs) < 0 THEN [rcv EXCEPT !.rx = RX_INVALID]
  ELSE IF expect_continue(fs) /\ content_length(fs) > 0
          /\ ~rcv.continue_sent_
  THEN [rcv EXCEPT !.rx = RX_EXPECT_CONTINUE, !.reported = TRUE]
  ELSE IF content_length(fs) > 0 THEN [rcv EXCEPT !.rx = RX_INCOMPLETE]
  ELSE [rcv EXCEPT !.rx = RX_VALID]

\* the receiver is given the bytes of buf of the header block
ReceiveHeaders(buf) ==
  /\ receiver.rx = RX_INCOMPLETE
  /\ ~valid_
  /\ ParseCall(buf, 0, Len(buf))
  /\ receiver' = receive_headers(receiver, fields_', result'.ret,
                                 result'.error)

\* the receiver is given the header line l
ReceiveLine(l) ==
  /\ Len(received) < MaxRequestLines
  /\ ReceiveHeaders(LineBytes(l))
  /\ received' = Append(received, l)

\* the receiver is given the blank line that ends the headers
ReceiveBlankLine ==
  /\ ReceiveHeaders(<<CR, LF>>)
  /\ UNCHANGED received

\* the server answers RX_EXPECT_CONTINUE itself with 100 Continue
SendContinue ==
  /\ receiver.rx = RX_EXPECT_CONTINUE
  /\ ~receiver.handler
  /\ receiver' = [receiver EXCEPT !.rx = RX_INCOMPLETE,
                                  !.continue_sent_ = TRUE,
                                  !.sent = Append(@, code_CONTINUE)]
  /\ UNCHANGED <<params, field_, fields_, valid_, length_, buffer, begin, end,
                 iter, result, received, lines, consumed, failed>>

\* the expect continue handler of the application answers with status:
\* 100 Continue lets the body in, another status ends the request
HandlerResponse(status) ==
  /\ receiver.rx = RX_EXPECT_CONTINUE
  /\ receiver.handler
  /\ receiver' =
       IF status = code_CONTINUE
       THEN [receiver EXCEPT !.rx = RX_INCOMPLETE, !.continue_sent_ = TRUE,
                             !.sent = Append(@, status)]
       ELSE [receiver EXCEPT !.rx = RX_INVALID, !.sent = Append(@, status)]
  /\ UNCHANGED <<params, field_, fields_, valid_, length_, buffer, begin, end,
                 iter, result, received, lines, consumed, failed>>

\* the receiver reads a byte of the body
ReceiveBody ==
  /\ receiver.rx = RX_INCOMPLETE
  /\ valid_
  /\ receiver.body < content_length(fields_)
  /\ receiver' = [receiver EXCEPT
                    !.body = @ + 1,
                    !.rx = IF receiver.body + 1 = content_length(fields_)
                           THEN RX_VALID ELSE RX_INCOMPLETE]
  /\ UNCHANGED <<params, field_, fields_, valid_, length_, buffer, begin, end,
                 iter, result, received, lines, consumed, failed>>

InitRequest ==
  /\ params \in ParamsAccess
  /\ field_ = field_line_clear
  /\ fields_ = <<>>
  /\ valid_ = FALSE
  /\ length_ = 0
  /\ buffer = <<>>
  /\ begin = 0
  /\ end = 0
  /\ iter = 0
  /\ result = [op |-> "construct", ret |-> FALSE, error |-> NoError,
               pre |-> field_line_clear]
  /\ received = <<>>
  /\ lines = 0
  /\ consumed = 0
  /\ failed = FALSE
  /\ receiver \in {receiver_new(h) : h \in BOOLEAN}

NextRequest ==
  \/ \E l \in RequestLines : ReceiveLine(l)
  \/ ReceiveBlankLine
  \/ SendContinue
  \/ \E status \in {code_CONTINUE, code_EXPECTATION_FAILED} :
       HandlerResponse(status)
  \/ ReceiveBody

\* the server answers in the call that reports RX_EXPECT_CONTINUE, and the
\* application's handler is called in it and answers
SpecRequest ==
  /\ InitRequest
  /\ [][NextRequest]_vars
  /\ WF_vars(SendContinue)
  /\ WF_vars(\E status \in {code_CONTINUE, code_EXPECTATION_FAILED} :
               HandlerResponse(status))

----------------------------------------------------------------------------
(* One field line received again and again *)

Repeat(l) ==
  /\ buffer \in {<<>>, LineBytes(l)}
  /\ lines < MaxRepeat
  /\ consumed < MaxRepeat * Len(LineBytes(l))
  /\ ParseCall(LineBytes(l), 0, Len(LineBytes(l)))
  /\ UNCHANGED <<received, receiver>>

InitRepeat == Fresh(ParamsRepeat, {<<>>})

NextRepeat ==
  \/ \E l \in Lines : Repeat(l)
  \/ Clear

SpecRepeat == InitRepeat /\ [][NextRepeat]_vars

----------------------------------------------------------------------------
(* One input handed to the parser in consecutive parts *)

\* message_headers::parse on the next part, which ends at e, from the byte
\* where the previous call stopped.  The caller goes on as long as parse
\* returns false at the end of the part it was given.
ParsePart(e) ==
  /\ ~result.ret
  /\ iter = end
  /\ e > end
  /\ e <= Len(buffer)
  /\ ParseCall(buffer, iter, e)
  /\ UNCHANGED <<received, receiver>>

\* one parse call on the whole of the input s by a new parser
OneShot(p, s) ==
  message_headers_parse(p,
    [field_ |-> field_line_clear, fields_ |-> <<>>, valid_ |-> FALSE,
     length_ |-> 0, lines |-> 0, iter |-> 0, ret |-> FALSE,
     error |-> NoError],
    s, 0, Len(s))

InitCut == Fresh(Params, Inputs)

NextCut == \E e \in 1..MaxCutInput : ParsePart(e)

SpecCut == InitCut /\ [][NextCut]_vars

----------------------------------------------------------------------------
(* Properties *)

\* the last byte the latest parse call consumed
LastByte == buffer[iter]

\* a name made of lower case letters and '-' only, and not empty
TokenName(n) ==
  /\ n # <<>>
  /\ \A k \in 1..Len(n) : (n[k] >= 97 /\ n[k] <= 122) \/ n[k] = HYPHEN

\* C1: incremental parsing is cut-invariant: when parse has returned true,
\* has stopped before the end of a part or has been given the last part of
\* an input, the valid flag, the stored fields and the number of consumed
\* bytes are those of one parse call on the whole input.
CutInvariant ==
  (result.op = "parse" /\ (result.ret \/ iter # end \/ end = Len(buffer))) =>
    LET whole == OneShot(params, buffer)
    IN /\ valid_ = whole.valid_
       /\ fields_ = whole.fields_
       /\ iter = whole.iter

\* C2: the merge law: a field received for the name n (compared in lower
\* case), by add() or as a parsed field line, is stored unchanged when n is
\* new and else leaves one entry for n, the old value, one separator (';'
\* for a name that contains "cookie", else ',') and the new value; no other
\* entry changes.
MergeLaw ==
  [][Len(received') = Len(received) + 1 =>
       LET r == received'[Len(received')]
           n == Lower(r.name)
       IN /\ DOMAIN fields_' = (DOMAIN fields_) \cup {n}
          /\ fields_'[n] =
               IF n \in DOMAIN fields_
               THEN (fields_[n]
                     \o <<IF contains(n, COOKIE) THEN SEMI ELSE COMMA>>)
                    \o r.value
               ELSE r.value
          /\ \A k \in (DOMAIN fields_) \ {n} : fields_'[k] = fields_[k]]_vars

\* C2 witness: after a first field, two Cookie lines whose names differ in
\* case were parsed and merged with ';'
MergeLawWitness ==
  /\ result.op = "parse"
  /\ Len(received) = 3
  /\ received[2].name # received[3].name
  /\ COOKIE \in DOMAIN fields_
  /\ fields_[COOKIE] = (received[2].value \o <<SEMI>>) \o received[3].value
  /\ received[3].value # <<>>

\* C3: every stored name and the name of every accepted field is not empty
\* and holds lower case letters and '-' only.
NameInvariant ==
  /\ \A n \in DOMAIN fields_ : TokenName(n)
  /\ field_.state_ = HEADER_VALID => TokenName(field_.name_)

\* C4: no stored value starts or ends with a space or a tab.
ValueTrimmed ==
  \A n \in DOMAIN fields_ :
    LET v == fields_[n]
    IN v # <<>> => ~is_space_or_tab(v[1]) /\ ~is_space_or_tab(v[Len(v)])

\* C5: the line-length bound of field_line: length_ counts every byte
\* consumed since clear(); the field is in ErrorLength exactly when the
\* count exceeds max_line_length; the call that consumes an exceeding byte
\* returns false and consumes no byte after it.
LineLengthBound ==
  /\ field_.length_ = consumed
  /\ (field_.state_ = HEADER_ERROR_LENGTH)
       <=> (field_.length_ > params.max_line_length_)
  /\ (result.op = "field_parse" /\ iter > begin
        /\ field_.length_ > params.max_line_length_) =>
       /\ ~result.ret
       /\ result.error = ByteError
       /\ (result.pre.length_ = params.max_line_length_) \/ (iter = begin + 1)

\* C5 witness: a call consumed the byte that exceeds max_line_length after
\* other bytes and left the rest of its buffer unconsumed
LineLengthWitness ==
  /\ result.op = "field_parse"
  /\ field_.state_ = HEADER_ERROR_LENGTH
  /\ field_.length_ = params.max_line_length_ + 1
  /\ iter > begin + 1
  /\ iter < end

\* C6: the limits of the header block: a parse call that completes a field
\* line is rejected for size when the cumulative length then exceeds
\* max_header_length or the number of field lines exceeds
\* max_header_number, and only then.
HeaderBlockLimits ==
  [][(result'.op = "parse" /\ lines' > lines) =>
       ((result'.error = SizeError)
          <=> (length_' > params.max_header_length_
                 \/ lines' > params.max_header_number_))]_vars

\* the bytes the parser holds: the collection and the field line in progress
HeldBytes == StoredBytes + Len(field_.name_) + Len(field_.value_)

\* what the limits allow the parser to hold: a collection up to
\* max_header_length and the line that exceeds it, a separator for each of
\* the field lines, and a field line in progress with its folds
ResourceBound ==
  2 * params.max_header_length_ + 3 * params.max_line_length_
    + params.max_header_number_

\* C7: the bytes held by the parser never exceed a bound that the limits
\* set.
BoundedResources == HeldBytes <= ResourceBound

\* C8: parse errors are terminal: after a parse call has returned false on
\* a malformed byte or an exceeded limit, no later call returns true.
ErrorsTerminal ==
  (failed /\ result.op = "parse") => ~result.ret

\* C9: strict_crlf on a field line: a bare LF that ends a value gives
\* ErrorCRLF and false when strict_crlf is set and else Valid with the name
\* and the value of the CRLF-terminated line; after CR only LF is accepted.
StrictCRLFLine ==
  (result.op = "field_parse" /\ iter > begin) =>
    LET pre    == result.pre
        within == pre.length_ < params.max_line_length_
        same   == /\ field_.state_ = HEADER_VALID
                  /\ result.ret
                  /\ field_.name_ = pre.name_
                  /\ field_.value_ = pre.value_
    IN /\ (pre.state_ \in {HEADER_VALUE_LS, HEADER_VALUE}
             /\ LastByte = LF /\ within) =>
            IF params.strict_crlf_
            THEN field_.state_ = HEADER_ERROR_CRLF /\ ~result.ret
            ELSE same
       /\ (pre.state_ = HEADER_LF /\ LastByte = LF /\ within) => same
       /\ (pre.state_ = HEADER_LF /\ LastByte # LF) => ~result.ret

\* C9 witness: a bare LF after a value was rejected under strict_crlf
StrictCRLFWitness ==
  /\ result.op = "field_parse"
  /\ params.strict_crlf_
  /\ field_.state_ = HEADER_ERROR_CRLF
  /\ field_.value_ # <<>>
  /\ field_.name_ # <<>>
  /\ LastByte = LF

\* C10: strict_crlf on the end of the header block: with strict_crlf set,
\* a parse call returns true only when the last two bytes consumed are CR
\* and LF.
StrictBlankLine ==
  [][(params.strict_crlf_ /\ result'.op = "parse" /\ result'.ret) =>
       /\ buffer'[iter'] = LF
       /\ \/ iter' >= 2 /\ iter' - 1 > begin' /\ buffer'[iter' - 1] = CR
          \/ /\ iter' = begin' + 1
             /\ result.op = "parse"
             /\ iter > begin
             /\ buffer[iter] = CR]_vars

\* the number of consecutive spaces and tabs of buf that end at its byte i
RECURSIVE ws_run(_, _)
ws_run(buf, i) ==
  IF i = 0 \/ ~is_space_or_tab(buf[i]) THEN 0 ELSE 1 + ws_run(buf, i - 1)

\* C11: the whitespace bound: a field_line enters ErrorWS (and parse returns
\* false) exactly when one run of consecutive spaces and tabs before a value
\* or before the text of a continuation line is longer than max_whitespace.
\* The run is the one that ends at the last byte consumed; it is measured
\* when the latest call consumed the byte before it as well.
WhitespaceBound ==
  (result.op = "field_parse" /\ iter > begin
     /\ ws_run(buffer, iter) < iter - begin
     /\ result.pre.state_ = HEADER_VALUE_LS
     /\ result.pre.length_ < params.max_line_length_) =>
    LET run == ws_run(buffer, iter)
    IN /\ (field_.state_ = HEADER_ERROR_WS) <=> (run > params.max_whitespace_)
       /\ (field_.state_ = HEADER_ERROR_WS) => ~result.ret

\* C12: header folding: when the LF that ends a line is followed by a space
\* or a tab the field is not finished: one space is appended to the value,
\* the leading whitespace of the continuation line is skipped and its text
\* is appended, for any number of continuation lines.
HeaderFolding ==
  (result.op = "field_parse" /\ iter > begin
     /\ result.pre.length_ < params.max_line_length_) =>
    LET pre == result.pre
    IN /\ (iter >= begin + 2 /\ buffer[iter - 1] = LF
             /\ is_space_or_tab(LastByte)) =>
            /\ pre.state_ = HEADER_VALUE_LS
            /\ pre.value_ # <<>>
            /\ pre.value_[Len(pre.value_)] = SP
            /\ field_.state_ = HEADER_VALUE_LS
            /\ field_.value_ = pre.value_
            /\ ~result.ret
            /\ result.error = NoError
       /\ (pre.state_ = HEADER_VALUE_LS /\ ~is_space_or_tab(LastByte)
             /\ ~is_end_of_line(LastByte)) =>
            /\ field_.state_ = HEADER_VALUE
            /\ field_.value_ = Append(pre.value_, LastByte)

\* C13: the contract of field_line::parse(iter, end): iter only advances and
\* not beyond end; the call returns true exactly when the state is Valid;
\* on true iter is directly after the LF that ended the line, and no
\* continuation line follows in the buffer; on false after a malformed
\* byte iter is directly after that byte; on false otherwise iter is end
\* and the field is the one the consumed bytes gave.
FieldParseContract ==
  result.op = "field_parse" =>
    LET pre  == result.pre
        last == parse_char(params, pre, LastByte)
    IN /\ begin <= iter
       /\ iter <= end
       /\ result.ret <=> (field_.state_ = HEADER_VALID)
       /\ result.ret =>
            IF iter > begin
            THEN /\ LastByte = LF
                 /\ pre.state_ # HEADER_VALID
                 /\ iter < end => ~is_space_or_tab(buffer[iter + 1])
            ELSE pre.state_ = HEADER_VALID
       /\ (result.error = ByteError) <=> (iter > begin /\ ~last.ok)
       /\ (~result.ret /\ result.error # ByteError) => iter = end
       /\ IF iter > begin THEN field_ = last.f ELSE field_ = pre

\* C13 witness: a call returned true directly after the LF of a field line
\* and left the bytes after it in the buffer
FieldParseWitness ==
  /\ result.op = "field_parse"
  /\ result.ret
  /\ iter > begin + 1
  /\ iter < end
  /\ field_.name_ # <<>>
  /\ field_.value_ # <<>>

\* the byte i of buf is the LF of a blank line: the line it ends holds
\* nothing but that LF, or CR and that LF
BlankLineAt(buf, i) ==
  /\ i >= 1
  /\ buf[i] = LF
  /\ LET s == IF i >= 2 /\ buf[i - 1] = CR THEN i - 2 ELSE i - 1
     IN s = 0 \/ buf[s] = LF

\* the names of the field lines in the first n bytes of buf, in lower case:
\* what stands between the start of a line and its first ':'
BlockNames(buf, n) ==
  {Lower(SubSeq(buf, sc[1] + 1, sc[2] - 1)) :
     sc \in {x \in (0..n) \X (1..n) :
               /\ x[1] < x[2]
               /\ x[1] = 0 \/ buf[x[1]] = LF
               /\ buf[x[2]] = COLON
               /\ \A k \in (x[1] + 1)..(x[2] - 1) :
                    isalpha(buf[k]) \/ buf[k] = HYPHEN}}

\* C14: the contract of message_headers::parse: it returns true only when
\* the blank line that ends the header block has been consumed; iter is
\* then directly after the LF of the blank line, valid() is true and the
\* collection holds one entry for each distinct name of the block; and
\* valid() is false as long as no parse call has returned true.  The calls
\* that follow a call that failed on an error are left out.
ParseContract ==
  /\ (result.op = "parse" /\ result.ret /\ ~failed) =>
       /\ iter > begin
       /\ iter <= end
       /\ BlankLineAt(buffer, iter)
       /\ valid_
       /\ DOMAIN fields_ = BlockNames(buffer, iter)
  /\ valid_ => (result.op = "parse" /\ result.ret)

\* the same contract for the inputs that one call is given whole
ParseContractOneCall == (begin = 0 /\ end = Len(buffer)) => ParseContract

\* the field line "Cookie: " v
CookieLine(v) == [name |-> <<67, 111, 111, 107, 105, 101>>, value |-> v]

\* C15: scenario S6: the field lines "Cookie: a=1" and "Cookie: b=2",
\* received in that order, leave the single entry cookie with the value
\* "a=1; b=2".
CookieScenario ==
  (/\ result.op = "parse"
   /\ result.error = NoError
   /\ received = <<CookieLine(<<97, 61, 49>>), CookieLine(<<98, 61, 50>>)>>) =>
    /\ DOMAIN fields_ = {COOKIE}
    /\ fields_[COOKIE] = <<97, 61, 49, SEMI, SP, 98, 61, 50>>

\* the collection fs without its entry for name
Without(fs, name) == [n \in (DOMAIN fs) \ {name} |-> fs[n]]

\* C16: is_chunked() is true exactly when a transfer-encoding field is
\* stored and its value, in lower case, does not contain "identity"; a
\* content-length field does not change the answer.
ChunkedContract ==
  /\ is_chunked(fields_) <=>
       /\ LC_TRANSFER_ENCODING \in DOMAIN fields_
       /\ ~contains(Lower(fields_[LC_TRANSFER_ENCODING]), IDENTITY)
  /\ is_chunked(fields_) = is_chunked(Without(fields_, LC_CONTENT_LENGTH))

\* the decimal digits that write the number n
RECURSIVE to_dec(_)
to_dec(n) ==
  IF n < 10 THEN <<48 + n>> ELSE Append(to_dec(n \div 10), 48 + (n % 10))

\* the digits of 2^63, the least number that overflows a std::ptrdiff_t
TwoTo63 == [PTRDIFF_MAX EXCEPT ![Len(PTRDIFF_MAX)] = 56]

\* C17: content_length() is 0 when no content-length field is stored, the
\* number the field writes when it is stored and holds decimal digits only,
\* -1 when it holds another character or a number that overflows, and
\* never less than -1.
ContentLengthContract ==
  LET r == content_length(fields_)
  IN /\ LC_CONTENT_LENGTH \notin DOMAIN fields_ => r = 0
     /\ LC_CONTENT_LENGTH \in DOMAIN fields_ =>
          LET v == fields_[LC_CONTENT_LENGTH]
          IN /\ \A n \in 0..MaxLength : (v = to_dec(n)) => r = n
             /\ (\E k \in 1..Len(v) : ~is_digit(v[k])) => r = -1
             /\ (v = TwoTo63) => r = -1
             /\ (Len(v) > Len(PTRDIFF_MAX) /\ v[1] # 48) => r = -1
     /\ r >= -1

\* C17 witness: a content-length field that writes 12 is stored beside
\* another field and content_length() is 12
ContentLengthWitness ==
  /\ result.op = "parse"
  /\ Cardinality(DOMAIN fields_) = 2
  /\ LC_CONTENT_LENGTH \in DOMAIN fields_
  /\ fields_[LC_CONTENT_LENGTH] = <<49, 50>>
  /\ content_length(fields_) = 12

\* s contains the lower case word w, in any letter case
ContainsAnyCase(s, w) ==
  \E k \in 0..(Len(s) - Len(w)) :
    \A j \in 1..Len(w) : s[k + j] = w[j] \/ s[k + j] = w[j] - 32

\* C18: close_connection() is true exactly when a connection field is
\* stored and its value contains "close" in any letter case.
CloseContract ==
  close_connection(fields_) <=>
    /\ LC_CONNECTION \in DOMAIN fields_
    /\ ContainsAnyCase(fields_[LC_CONNECTION], CLOSE)

\* C18 witness: two Connection lines were merged, the value holds "Close"
\* after another token and close_connection() is true
CloseWitness ==
  /\ result.op = "parse"
  /\ Len(received) = 2
  /\ LC_CONNECTION \in DOMAIN fields_
  /\ Len(fields_[LC_CONNECTION]) > Len(CLOSE) + 1
  /\ ~contains(fields_[LC_CONNECTION], CLOSE)
  /\ close_connection(fields_)

\* s contains LF LF or LF CR LF
HasSplit(s) ==
  \E k \in 1..(Len(s) - 1) :
    /\ s[k] = LF
    /\ \/ s[k + 1] = LF
       \/ k + 2 <= Len(s) /\ s[k + 1] = CR /\ s[k + 2] = LF

\* C19: are_headers_split(s) is true exactly when s contains LF LF or
\* LF CR LF; it is false for the empty string and for header lines
\* name ": " value CRLF, one after the other, whose names and values hold
\* no CR and no LF.
HeadersSplitContract ==
  result.op = "are_headers_split" =>
    /\ result.ret <=> HasSplit(buffer)
    /\ buffer = <<>> => ~result.ret
    /\ received # <<>> => ~result.ret

\* C19 witness: are_headers_split was true for a string that ends with
\* LF CR LF and holds no LF LF
HeadersSplitWitness ==
  /\ result.op = "are_headers_split"
  /\ result.ret
  /\ Len(buffer) = 4
  /\ buffer[1] # LF
  /\ SubSeq(buffer, 2, 4) = <<LF, CR, LF>>

\* C20: encoder safety: no name and no value that parse has stored holds a
\* CR or an LF, and are_headers_split is false for to_string().
EncoderSafety ==
  /\ \A n \in DOMAIN fields_ :
       /\ \A k \in 1..Len(n) : ~is_end_of_line(n[k])
       /\ \A k \in 1..Len(fields_[n]) : ~is_end_of_line(fields_[n][k])
  /\ \A s \in to_string(fields_) : ~are_headers_split(s)

\* C20 witness: a header block with a duplicate field was parsed to its
\* blank line and the merged value is stored
EncoderSafetyWitness ==
  /\ result.op = "parse"
  /\ result.ret
  /\ valid_
  /\ \E n \in DOMAIN fields_ : contains(fields_[n], <<COMMA>>)
  /\ \A s \in to_string(fields_) : s # <<>>

\* C21: reset between messages: clear() in any state leaves the limits
\* unchanged and the members as the constructor sets them, and the parse
\* call that follows it returns, consumes and stores what the same call
\* does on a new parser with the same limits.
ResetBetweenMessages ==
  [][/\ (result'.op = "clear") =>
          /\ params' = params
          /\ field_' = field_line_clear
          /\ fields_' = <<>>
          /\ ~valid_'
          /\ length_' = 0
     /\ (result.op = "clear" /\ result'.op = "parse") =>
          LET new == OneShot(params', buffer')
          IN /\ params' = params
             /\ result'.ret = new.ret
             /\ result'.error = new.error
             /\ iter' = new.iter
             /\ field_' = new.field_
             /\ fields_' = new.fields_
             /\ valid_' = new.valid_
             /\ length_' = new.length_]_vars

\* C21 witness: clear() was called on a parser whose field line was in an
\* error state with a name and a value
ResetWitness ==
  /\ result.op = "clear"
  /\ result.pre.state_ = HEADER_ERROR_CRLF
  /\ result.pre.name_ # <<>>
  /\ result.pre.value_ # <<>>
  /\ field_ = field_line_clear

\* the request whose headers are fields_ expects 100 Continue and has a
\* body: an expect field with "100-continue" in any letter case and a
\* content-length that writes a number above 0
ExpectsContinue ==
  /\ valid_
  /\ LC_EXPECT \in DOMAIN fields_
  /\ LET v == fields_[LC_EXPECT]
     IN \E k \in 0..(Len(v) - Len(CONTINUE)) :
          \A j \in 1..Len(CONTINUE) : tolower(v[k + j]) = CONTINUE[j]
  /\ LC_CONTENT_LENGTH \in DOMAIN fields_
  /\ \E n \in 1..MaxLength : fields_[LC_CONTENT_LENGTH] = to_dec(n)

NoPartialField ==
  (valid_ /\ ~failed) =>
    /\ field_ = field_line_clear
    /\ BlankLineAt(buffer, iter)
    /\ lines = 0 => iter <= 2

\* C24: when a parse call reports the header block valid, the number of
\* stored fields is at most max_header_number and the accumulated length
\* at most max_header_length, also when the block was rejected for its
\* size in an earlier call.
ValidWithinLimits ==
  (result.op = "parse" /\ result.ret /\ valid_) =>
    /\ Cardinality(DOMAIN fields_) <= params.max_header_number_
    /\ length_ <= params.max_header_length_

\* the error states of field_line
ErrorStates == {HEADER_ERROR_LENGTH, HEADER_ERROR_CRLF, HEADER_ERROR_WS}

\* C25: the error states of field_line are absorbing: once the field line
\* is in ErrorLength, ErrorCRLF or ErrorWS, every parse call returns false,
\* the state stays one of the three and the name and the value are not
\* modified, until clear() is called.
ErrorsAbsorbing ==
  [][(field_.state_ \in ErrorStates /\ result'.op # "clear") =>
       /\ result'.op = "field_parse"
       /\ ~result'.ret
       /\ field_'.state_ \in ErrorStates
       /\ field_'.name_ = field_.name_
       /\ field_'.value_ = field_.value_]_vars

\* C25 witness: a parse call was given bytes while the field line was in
\* ErrorCRLF, consumed one and left the field line in an error state
ErrorsAbsorbingWitness ==
  /\ result.op = "field_parse"
  /\ iter > begin
  /\ result.pre.state_ = HEADER_ERROR_CRLF
  /\ result.pre.value_ # <<>>
  /\ field_.state_ \in ErrorStates
  /\ ~result.ret

====
